---- MODULE Spec2Model ----
(***************************************************************************)
(* GameTool (computer_use_demo/tools/game.py): the action dispatcher       *)
(* GameTool.__call__, the screenshot flow GameTool.screenshot and the      *)
(* coordinate mapper GameTool.scale_coordinates.                           *)
(*                                                                         *)
(* Python values are records tagged with their type: [t |-> "None"],       *)
(* [t |-> "str", v |-> "up"], [t |-> "int", v |-> 3], [t |-> "float"],     *)
(* [t |-> "list", v |-> <<...>>], [t |-> "tuple", v |-> <<...>>].          *)
(* Python strings are TLA+ strings, taken apart with Len and SubSeq.       *)
(***************************************************************************)
EXTENDS Integers, Sequences, FiniteSets, TLC

VARIABLES
    width,        \* self.width  (WIDTH, read once by __init__)
    height,       \* self.height (HEIGHT, read once by __init__)
    keysDown,     \* OS keyboard state: the keys currently held down
    buttonsDown,  \* OS mouse state: the buttons currently held down
    request,      \* the arguments of the last __call__
    calls,        \* the primitives that last __call__ invoked, in order
    result,       \* what that __call__ returned or raised
    scaleIn,      \* the arguments of the last direct scale_coordinates call
    scaleOut,     \* what it returned or raised
    scaleBack,    \* scale_coordinates(COMPUTER, ..) of a returned API mapping
    invocations   \* how many times __call__ has run in this session

vars == <<width, height, keysDown, buttonsDown, request, calls, result,
          scaleIn, scaleOut, scaleBack, invocations>>

----------------------------------------------------------------------------
(* Bounds of the model.                                                    *)

\* Inputs to scale_coordinates run from 0 to the configured size + MaxOver.
MaxOver == 2

\* A session is followed for MaxCalls invocations of the tool.
MaxCalls == 3

----------------------------------------------------------------------------
(* Python values.                                                          *)

PyNone == [t |-> "None"]
PyStr(s) == [t |-> "str", v |-> s]
PyInt(n) == [t |-> "int", v |-> n]
PyFloat(s) == [t |-> "float", v |-> s]
PyList(items) == [t |-> "list", v |-> items]
PyTuple(items) == [t |-> "tuple", v |-> items]

----------------------------------------------------------------------------
(* str methods used by the dispatcher.                                     *)

UPPERCASE == "ABCDEFGHIJKLMNOPQRSTUVWXYZ"
LOWERCASE == "abcdefghijklmnopqrstuvwxyz"

CharAt(s, i) == SubSeq(s, i, i)

\* str.lower() on one character
LowerChar(c) ==
    IF \E i \in 1..Len(UPPERCASE) : CharAt(UPPERCASE, i) = c
    THEN CharAt(LOWERCASE, CHOOSE i \in 1..Len(UPPERCASE) : CharAt(UPPERCASE, i) = c)
    ELSE c

\* str.lower()
RECURSIVE lower(_)
lower(s) ==
    IF Len(s) = 0 THEN s
    ELSE LowerChar(CharAt(s, 1)) \o lower(SubSeq(s, 2, Len(s)))

\* Python's `t in s` on two strings: t occurs in s as a contiguous run
\* (the empty string occurs in every string).
InStr(t, s) ==
    \E i \in 1..(Len(s) + 1) : \E j \in (i - 1)..Len(s) : SubSeq(s, i, j) = t

\* s.startswith(p)
startswith(s, p) == Len(s) >= Len(p) /\ SubSeq(s, 1, Len(p)) = p

\* the positions of the separator character sep in s
SepPositions(s, sep) == {i \in 1..Len(s) : CharAt(s, i) = sep}

Max(S) == CHOOSE m \in S : \A n \in S : n <= m
Min(S) == CHOOSE m \in S : \A n \in S : m <= n

\* s.split(sep)[-1]
SplitLast(s, sep) ==
    IF SepPositions(s, sep) = {} THEN s
    ELSE SubSeq(s, Max(SepPositions(s, sep)) + 1, Len(s))

\* s.split(sep)[0]
SplitFirst(s, sep) ==
    IF SepPositions(s, sep) = {} THEN s
    ELSE SubSeq(s, 1, Min(SepPositions(s, sep)) - 1)

----------------------------------------------------------------------------
(* Results.                                                                *)

ToolError(message) == [kind |-> "ToolError", message |-> message]
ToolResult(output, image) ==
    [kind |-> "ToolResult", output |-> output, base64_image |-> image]

----------------------------------------------------------------------------
(* CoordinateMapper: scale_coordinates.                                    *)

MAX_SCALING_TARGETS ==
    << [name |-> "XGA",   width |-> 1024, height |-> 768],
       [name |-> "WXGA",  width |-> 1280, height |-> 800],
       [name |-> "FWXGA", width |-> 1366, height |-> 768] >>

NoTarget == [name |-> "None", width |-> 0, height |-> 0]

scaling_enabled == TRUE

\* The aspect-ratio tolerance 0.02 is 1 / TOLERANCE_INV.
TOLERANCE_INV == 50

Abs(n) == IF n < 0 THEN -n ELSE n

\* abs(dimension["width"] / dimension["height"] - ratio) < 0.02 with
\* ratio = w / h, over the rationals:
\*   |dw/dh - w/h| < 1/50  <=>  50 * |dw*h - w*dh| < dh*h
ratio_matches(dimension, w, h) ==
    TOLERANCE_INV * Abs(dimension.width * h - w * dimension.height)
        < dimension.height * h

\* a width test that also takes an entry as wide as the screen
narrower_or_equal(dimension, w) == dimension.width <= w

\* if dimension["width"] < self.width
narrower(dimension, w) == dimension.width < w

\* the for loop over MAX_SCALING_TARGETS.values(), from entry i on: the first
\* entry whose ratio matches ends the loop (break), selected or not
RECURSIVE scan_targets(_, _, _)
scan_targets(i, w, h) ==
    IF i > Len(MAX_SCALING_TARGETS) THEN NoTarget
    ELSE IF ratio_matches(MAX_SCALING_TARGETS[i], w, h)
         THEN IF narrower(MAX_SCALING_TARGETS[i], w)
              THEN MAX_SCALING_TARGETS[i]
              ELSE NoTarget
         ELSE scan_targets(i + 1, w, h)

target_dimension(w, h) == scan_targets(1, w, h)

\* round(n / d) for n >= 0, d > 0.  The code rounds a double: off an exact
\* half the double's error cannot change the nearest integer, but on an exact
\* half the quotient may land on either side (900-high screen, y = 416:
\* 416 / (768/900) is 487.49999999999994), so both neighbours are outcomes.
round(n, d) ==
    IF 2 * (n % d) < d THEN {n \div d}
    ELSE IF 2 * (n % d) > d THEN {n \div d + 1}
    ELSE {n \div d, n \div d + 1}

Returned(x, y) == [kind |-> "return", x |-> x, y |-> y]

\* a bounds test that needs both components to be out
out_of_bounds_both(w, h, x, y) == x > w /\ y > h

\* if x > self.width or y > self.height
out_of_bounds(w, h, x, y) == x > w \/ y > h

\* round(v / factor) with factor = target / configured: scale up
scale_up(v, target, configured) == round(v * configured, target)

\* a scale-down that divides by the factor, as scale-up does
scale_down_divides(v, target, configured) == round(v * configured, target)

\* round(v * factor) with factor = target / configured: scale down
scale_down(v, target, configured) == round(v * target, configured)

\* The set of outcomes of self.scale_coordinates(source, x, y).
scale_coordinates(w, h, source, x, y) ==
    IF ~scaling_enabled THEN {Returned(x, y)}
    ELSE LET target == target_dimension(w, h) IN
         IF target.name = "None" THEN {Returned(x, y)}
         ELSE IF source = "api"
              THEN IF out_of_bounds(w, h, x, y)
                   THEN {ToolError("out of bounds")}
                   ELSE {Returned(px, py) :
                            px \in scale_up(x, target.width, w),
                            py \in scale_up(y, target.height, h)}
              ELSE {Returned(lx, ly) :
                       lx \in scale_down(x, target.width, w),
                       ly \in scale_down(y, target.height, h)}

----------------------------------------------------------------------------
(* Configurations: WIDTH x HEIGHT as __init__ reads them.                  *)

Resolution(w, h) == [width |-> w, height |-> h]

Resolutions ==
    { Resolution(1280, 960),    \* 4:3, above XGA
      Resolution(1440, 900),    \* 16:10, above WXGA
      Resolution(1600, 900),    \* 16:9, above FWXGA
      Resolution(1920, 1080),   \* 16:9, above FWXGA
      Resolution(1024, 768),    \* XGA itself
      Resolution(800, 600),     \* 4:3, below XGA
      Resolution(1366, 768),    \* FWXGA itself
      Resolution(1280, 1024) }  \* 5:4, no entry matches

----------------------------------------------------------------------------
(* Direct use of the mapper: toPhysical = scale_coordinates(API, ..),      *)
(* toLogical = scale_coordinates(COMPUTER, ..).                            *)

AxisValues(limit) == 0..(limit + MaxOver)
AxisSamples(limit) == {0, limit, limit + MaxOver}

\* the points handed to the mapper: every value of one axis against the
\* corners of the other
ScaleInputs(w, h) ==
    {<<x, y>> : x \in AxisValues(w), y \in AxisSamples(h)}
        \cup {<<x, y>> : x \in AxisSamples(w), y \in AxisValues(h)}

NoOutcome == [kind |-> "none"]
NoRequest == [action |-> "", text |-> PyNone, coordinate |-> PyNone]

\* a configured tool and a point (x, y) about to be mapped
ScaleInit ==
    /\ \E r \in Resolutions :
          /\ width = r.width
          /\ height = r.height
          /\ \E p \in ScaleInputs(r.width, r.height) :
                scaleIn = [source |-> "pending", x |-> p[1], y |-> p[2]]
    /\ keysDown = {}
    /\ buttonsDown = {}
    /\ request = NoRequest
    /\ calls = <<>>
    /\ result = NoOutcome
    /\ scaleOut = NoOutcome
    /\ scaleBack = NoOutcome
    /\ invocations = 0

\* toPhysical(x, y) = self.scale_coordinates(ScalingSource.API, x, y)
ToPhysical ==
    /\ scaleIn.source = "pending"
    /\ scaleIn' = [scaleIn EXCEPT !.source = "api"]
    /\ scaleOut' \in scale_coordinates(width, height, "api", scaleIn.x, scaleIn.y)
    /\ UNCHANGED <<width, height, keysDown, buttonsDown, request, calls, result,
                   scaleBack, invocations>>

\* toLogical(x, y) = self.scale_coordinates(ScalingSource.COMPUTER, x, y)
ToLogical ==
    /\ scaleIn.source = "pending"
    /\ scaleIn' = [scaleIn EXCEPT !.source = "computer"]
    /\ scaleOut' \in scale_coordinates(width, height, "computer", scaleIn.x, scaleIn.y)
    /\ UNCHANGED <<width, height, keysDown, buttonsDown, request, calls, result,
                   scaleBack, invocations>>

\* toLogical applied to what toPhysical returned
ToLogicalOfPhysical ==
    /\ scaleIn.source = "api"
    /\ scaleOut.kind = "return"
    /\ scaleBack.kind = "none"
    /\ scaleBack' \in scale_coordinates(width, height, "computer", scaleOut.x, scaleOut.y)
    /\ UNCHANGED <<width, height, keysDown, buttonsDown, request, calls, result,
                   scaleIn, scaleOut, invocations>>

ScaleNext == ToPhysical \/ ToLogical \/ ToLogicalOfPhysical

SpecScale == ScaleInit /\ [][ScaleNext]_vars

----------------------------------------------------------------------------
(* Properties of the mapper, checked under SpecScale.                      *)

TargetSelected == target_dimension(width, height).name # "None"

\* C4 as stated: toPhysical fails with an out-of-bounds ToolError whenever
\* x exceeds the configured width or y the configured height, for every
\* configured resolution, target selected or not.
C4_OutOfBoundsForEveryResolution ==
    (scaleIn.source = "api" /\ (scaleIn.x > width \/ scaleIn.y > height))
        => (scaleOut.kind = "ToolError" /\ scaleOut.message = "out of bounds")

\* C4 as amended: with a scaling target selected, toPhysical fails with an
\* out-of-bounds ToolError whenever x exceeds the configured width or y the
\* configured height; with no target selected it returns such an input
\* unchanged.
C4_OutOfBoundsWhenTargetSelected ==
    (scaleIn.source = "api" /\ (scaleIn.x > width \/ scaleIn.y > height))
        => IF TargetSelected
           THEN scaleOut.kind = "ToolError" /\ scaleOut.message = "out of bounds"
           ELSE scaleOut.kind = "return" /\ scaleOut.x = scaleIn.x
                                          /\ scaleOut.y = scaleIn.y

\* toPhysical has refused a point whose x alone is out of bounds
C4_Witness ==
    /\ scaleIn.source = "api"
    /\ TargetSelected
    /\ scaleIn.x > width
    /\ scaleIn.y <= height
    /\ scaleOut.kind = "ToolError"

\* C5: with a scaling target selected, for 0 <= x <= W and 0 <= y <= H,
\* toLogical(toPhysical(x, y)) is within 1 of (x, y) on each axis.
C5_RoundTripWithinOne ==
    (/\ scaleBack.kind = "return"
     /\ TargetSelected
     /\ scaleIn.x \in 0..width
     /\ scaleIn.y \in 0..height)
        => /\ Abs(scaleBack.x - scaleIn.x) <= 1
           /\ Abs(scaleBack.y - scaleIn.y) <= 1

\* a point at the far edge was scaled up and mapped back
C5_Witness ==
    /\ scaleBack.kind = "return"
    /\ TargetSelected
    /\ scaleIn.x = width
    /\ scaleOut.x > width
    /\ scaleBack.x = scaleIn.x

\* the table entries whose aspect ratio is within 0.02 of the screen's
RatioMatches == {i \in 1..Len(MAX_SCALING_TARGETS) :
                    ratio_matches(MAX_SCALING_TARGETS[i], width, height)}

\* the table entries with exactly the screen's aspect ratio and at least its width
ExactButNotNarrower ==
    {i \in 1..Len(MAX_SCALING_TARGETS) :
        /\ MAX_SCALING_TARGETS[i].width * height = width * MAX_SCALING_TARGETS[i].height
        /\ width <= MAX_SCALING_TARGETS[i].width}

PassedThrough ==
    scaleOut.kind = "return" /\ scaleOut.x = scaleIn.x /\ scaleOut.y = scaleIn.y

\* C6: the target is the first table entry (order XGA, WXGA, FWXGA) whose
\* ratio matches, and only if it is strictly narrower than the screen;
\* otherwise there is no target, later entries are not considered, and both
\* toPhysical and toLogical return their input unchanged.  A screen with
\* exactly an entry's ratio and at most its width passes coordinates through.
C6_FirstRatioMatchDecides ==
    /\ target_dimension(width, height) =
          IF RatioMatches = {} THEN NoTarget
          ELSE IF MAX_SCALING_TARGETS[Min(RatioMatches)].width < width
               THEN MAX_SCALING_TARGETS[Min(RatioMatches)]
               ELSE NoTarget
    /\ (~TargetSelected /\ scaleOut.kind # "none") => PassedThrough
    /\ (ExactButNotNarrower # {} /\ scaleOut.kind # "none") => PassedThrough

\* a 4:3 screen narrower than XGA passed an off-screen point through toPhysical
C6_Witness ==
    /\ ExactButNotNarrower # {}
    /\ width < MAX_SCALING_TARGETS[1].width
    /\ scaleIn.source = "api"
    /\ scaleIn.x > width
    /\ PassedThrough

----------------------------------------------------------------------------
(* The primitives the dispatcher calls: pyautogui, the shell, the file.    *)

MoveTo(x, y) == [op |-> "moveTo", x |-> x, y |-> y]
DragTo(x, y) == [op |-> "dragTo", x |-> x, y |-> y]
KeyDown(k) == [op |-> "keyDown", key |-> k]
KeyUp(k) == [op |-> "keyUp", key |-> k]
Press(k) == [op |-> "press", key |-> k]
Sleep(n) == [op |-> "sleep", seconds |-> n]
Write(chunk) == [op |-> "write", text |-> chunk]
Mouse(op) == [op |-> op]
Mkdir == [op |-> "mkdir"]
Convert(w, h) == [op |-> "shell", cmd |-> "convert", w |-> w, h |-> h]
Screencapture == [op |-> "shell", cmd |-> "screencapture"]
PathExists == [op |-> "exists"]
ReadBytes == [op |-> "read_bytes"]

Outcome(c, r) == [calls |-> c, result |-> r]
Raise(message) == {Outcome(<<>>, ToolError(message))}

ToolResultAt(output, x, y) ==
    [kind |-> "ToolResult", output |-> output, base64_image |-> FALSE,
     x |-> x, y |-> y]

----------------------------------------------------------------------------
(* GameTool.screenshot                                                     *)

\* the second resize: issued under `if self._scaling_enabled`, to the size
\* scale_coordinates(COMPUTER, self.width, self.height) returns
second_resize(w, h) ==
    IF scaling_enabled
    THEN {<<Convert(s.x, s.y)>> : s \in scale_coordinates(w, h, "computer", w, h)}
    ELSE {<<>>}

\* The outcomes of self.screenshot(): the calls in the order the code issues
\* them.  captured: whether screencapture left a file at path, which is what
\* path.exists() then finds (convert neither creates nor removes the file).
screenshot(w, h) ==
    { Outcome(<<Mkdir, Convert(w, h), Screencapture>> \o second \o <<PathExists>>
                  \o (IF captured THEN <<ReadBytes>> ELSE <<>>),
              IF captured THEN ToolResult("stdout", TRUE)
                          ELSE ToolError("Failed to take screenshot"))
        : captured \in BOOLEAN, second \in second_resize(w, h) }

----------------------------------------------------------------------------
(* GameTool.__call__                                                       *)

TYPING_GROUP_SIZE == 50

\* chunks(s, chunk_size), from offset i (1-based) on
RECURSIVE chunks_from(_, _, _)
chunks_from(s, chunk_size, i) ==
    IF i > Len(s) THEN <<>>
    ELSE <<SubSeq(s, i, IF i + chunk_size - 1 < Len(s) THEN i + chunk_size - 1 ELSE Len(s))>>
             \o chunks_from(s, chunk_size, i + chunk_size)

chunks(s, chunk_size) == chunks_from(s, chunk_size, 1)

\* a component test that forgets the sign
ints_of_any_sign(items) == \A i \in 1..Len(items) : items[i].t = "int"

\* all(isinstance(i, int) and i >= 0 for i in coordinate)
non_negative_ints(items) ==
    \A i \in 1..Len(items) : items[i].t = "int" /\ items[i].v >= 0

\* if action in ("mouse_move", "left_click_drag"): ...
pointer_motion(w, h, action, text, coordinate) ==
    IF coordinate.t = "None" THEN Raise("coordinate is required")
    ELSE IF text.t # "None" THEN Raise("text is not accepted")
    ELSE IF coordinate.t # "list" \/ Len(coordinate.v) # 2
         THEN Raise("must be a tuple of length 2")
    ELSE IF ~non_negative_ints(coordinate.v)
         THEN Raise("must be a tuple of non-negative ints")
    ELSE { IF s.kind = "ToolError" THEN Outcome(<<>>, s)
           ELSE IF action = "mouse_move"
                THEN Outcome(<<MoveTo(s.x, s.y)>>, ToolResultAt("Moved mouse to", s.x, s.y))
                ELSE Outcome(<<DragTo(s.x, s.y)>>, ToolResultAt("Dragged mouse to", s.x, s.y))
           : s \in scale_coordinates(w, h, "api", coordinate.v[1].v, coordinate.v[2].v) }

ARROW_TOKENS ==
    {"right-arrow", "right", "left-arrow", "left", "up-arrow", "up", "down-arrow", "down"}

\* if action == "key": the if / elif chain on text
key_calls(text) ==
    IF InStr(lower(text), "wasd")
    THEN <<KeyDown(lower(text)), Sleep(1), KeyUp(lower(text))>>
    ELSE IF InStr(lower(text), LOWERCASE) THEN <<Press(lower(text))>>
    ELSE IF InStr(text, "1234567890") THEN <<Press(text)>>
    ELSE IF lower(text) = "return" THEN <<Press("enter")>>
    ELSE IF lower(text) \in ARROW_TOKENS THEN <<Press(lower(SplitFirst(text, "-")))>>
    ELSE <<Press(lower(text))>>

\* elif action == "type": write each chunk, then screenshot
type_outcomes(w, h, text) ==
    LET written == [i \in 1..Len(chunks(text, TYPING_GROUP_SIZE)) |->
                       Write(chunks(text, TYPING_GROUP_SIZE)[i])]
    IN { IF shot.result.kind = "ToolError"
         THEN Outcome(written \o shot.calls, shot.result)
         ELSE Outcome(written \o shot.calls, ToolResult("Typed", TRUE))
         : shot \in screenshot(w, h) }

\* if action in ("key", "type"): ...
\* (for a non-str text the code raises ToolError(output=...); base.py, which
\* defines ToolError, is not among these sources, so the exception is modelled
\* by its message: whatever its class, it is raised before any primitive)
key_or_type(w, h, action, text, coordinate) ==
    IF text.t = "None" THEN Raise("text is required")
    ELSE IF coordinate.t # "None" THEN Raise("coordinate is not accepted")
    ELSE IF text.t # "str" THEN Raise("must be a string")
    ELSE IF action = "key"
         THEN {Outcome(key_calls(text.v), ToolResult("Pressed key", FALSE))}
         ELSE type_outcomes(w, h, text.v)

\* pyautogui.position(): the pointer is somewhere on the physical display
Positions(w, h) == {<<0, 0>>, <<w \div 2, h \div 2>>, <<w - 1, h - 1>>}

\* a click table whose every entry is the primary click
click_map_all_primary(action) == Mouse("click")

click_map(action) ==
    CASE action = "left_click" -> Mouse("click")
      [] action = "right_click" -> Mouse("rightClick")
      [] action = "middle_click" -> Mouse("middleClick")
      [] action = "double_click" -> Mouse("doubleClick")

\* if action in ("left_click", ..., "screenshot", "cursor_position"): ...
click_or_capture(w, h, action, text, coordinate) ==
    IF text.t # "None" THEN Raise("text is not accepted")
    ELSE IF coordinate.t # "None" THEN Raise("coordinate is not accepted")
    ELSE IF action = "screenshot" THEN screenshot(w, h)
    ELSE IF action = "cursor_position"
         THEN { Outcome(<<Mouse("position")>>, ToolResultAt("X=,Y=", s.x, s.y))
                : s \in UNION {scale_coordinates(w, h, "computer", p[1], p[2])
                                  : p \in Positions(w, h)} }
    ELSE {Outcome(<<click_map(action)>>, ToolResult("Performed", FALSE))}

\* # minecraft: the tail of __call__, reached by every other action
game_control(action) ==
    IF action = "left_down"
    THEN {Outcome(<<Mouse("mouseDown")>>, ToolResult("Performed", FALSE))}
    ELSE IF action = "left_up"
    THEN {Outcome(<<Mouse("mouseUp")>>, ToolResult("Performed", FALSE))}
    ELSE IF startswith(action, "hold_arrow_")
    THEN {Outcome(<<KeyDown(SplitLast(action, "_"))>>, ToolResult("Performed", FALSE))}
    ELSE IF startswith(action, "release_arrow_")
    THEN {Outcome(<<KeyUp(SplitLast(action, "_"))>>, ToolResult("Performed", FALSE))}
    ELSE Raise("Invalid action")

\* The outcomes of self(action=action, text=text, coordinate=coordinate).
call(w, h, action, text, coordinate) ==
    IF action \in {"mouse_move", "left_click_drag"}
    THEN pointer_motion(w, h, action, text, coordinate)
    ELSE IF action \in {"key", "type"}
    THEN key_or_type(w, h, action, text, coordinate)
    ELSE IF action \in {"left_click", "right_click", "double_click", "middle_click",
                        "screenshot", "cursor_position"}
    THEN click_or_capture(w, h, action, text, coordinate)
    ELSE game_control(action)

----------------------------------------------------------------------------
(* What the primitives do to the keyboard and the mouse.                   *)

\* the key names of pyautogui that the inputs below can name
KEYBOARD_KEYS ==
    {"up", "down", "left", "right", "space", "enter", "w", "a", "s", "d", "x", "5"}

\* pyautogui lower-cases a key name of more than one character
KeyName(k) == IF Len(k) > 1 THEN lower(k) ELSE k

\* keyDown holds a key it knows and ignores any other name; keyUp releases;
\* press is keyDown then keyUp; write presses each character in turn
keys_after(keys, c) ==
    CASE c.op = "keyDown" ->
            IF KeyName(c.key) \in KEYBOARD_KEYS THEN keys \cup {KeyName(c.key)} ELSE keys
      [] c.op \in {"keyUp", "press"} -> keys \ {KeyName(c.key)}
      [] c.op = "write" -> keys \ {CharAt(c.text, i) : i \in 1..Len(c.text)}
      [] OTHER -> keys

\* mouseDown holds the primary button, mouseUp releases it; click,
\* doubleClick and dragTo press and release it
buttons_after(buttons, c) ==
    CASE c.op = "mouseDown" -> buttons \cup {"left"}
      [] c.op \in {"mouseUp", "click", "doubleClick", "dragTo"} -> buttons \ {"left"}
      [] OTHER -> buttons

RECURSIVE KeysAfterAll(_, _)
KeysAfterAll(keys, cs) ==
    IF cs = <<>> THEN keys ELSE KeysAfterAll(keys_after(keys, Head(cs)), Tail(cs))

RECURSIVE ButtonsAfterAll(_, _)
ButtonsAfterAll(buttons, cs) ==
    IF cs = <<>> THEN buttons
    ELSE ButtonsAfterAll(buttons_after(buttons, Head(cs)), Tail(cs))

----------------------------------------------------------------------------
(* The session: the agent invokes one action at a time.                    *)

Vocabulary ==
    {"key", "type", "mouse_move", "left_click", "left_click_drag", "right_click",
     "middle_click", "double_click", "screenshot", "cursor_position",
     "left_down", "left_up",
     "hold_arrow_up", "release_arrow_up", "hold_arrow_down", "release_arrow_down",
     "hold_arrow_left", "release_arrow_left", "hold_arrow_right", "release_arrow_right"}

GameControlActions ==
    {"left_down", "left_up",
     "hold_arrow_up", "release_arrow_up", "hold_arrow_down", "release_arrow_down",
     "hold_arrow_left", "release_arrow_left", "hold_arrow_right", "release_arrow_right"}

\* action names outside the vocabulary
OtherNames ==
    {"hold_arrow_space", "hold_arrow_", "release_arrow_space", "release_arrow_x_UP",
     "jump", ""}

RECURSIVE Repeat(_, _)
Repeat(c, n) == IF n = 0 THEN "" ELSE c \o Repeat(c, n - 1)

\* one character more than a chunk holds
LongText == Repeat("x", TYPING_GROUP_SIZE + 1)

KeyTexts ==
    {"w", "D", "as", "", "wasd", "return", "Return", "up", "Up-Arrow", "down",
     "left-arrow", "RIGHT", "space", "5", "x"}

TypeTexts == {"hi", LongText}

GoodPairs(w, h) == {<<0, 0>>, <<w \div 2, h \div 2>>, <<w, h>>, <<w + 1, 0>>}

CoordinateInputs(w, h) ==
    { PyNone,
      PyTuple(<<PyInt(1), PyInt(2)>>),
      PyList(<<PyInt(1)>>),
      PyList(<<PyInt(1), PyInt(2), PyInt(3)>>),
      PyList(<<PyInt(-1), PyInt(2)>>),
      PyList(<<PyInt(1), PyFloat("2.5")>>) }
    \cup {PyList(<<PyInt(p[1]), PyInt(p[2])>>) : p \in GoodPairs(w, h)}

\* the parameters an action does not take: both omitted, or one given
Spare ==
    { <<PyNone, PyNone>>,
      <<PyStr("x"), PyNone>>,
      <<PyNone, PyList(<<PyInt(1), PyInt(2)>>)>> }

SessionResolutions == {Resolution(1920, 1080), Resolution(1024, 768)}

Init ==
    /\ \E r \in SessionResolutions : width = r.width /\ height = r.height
    /\ keysDown = {}
    /\ buttonsDown = {}
    /\ request = NoRequest
    /\ calls = <<>>
    /\ result = NoOutcome
    /\ scaleIn = [source |-> "none", x |-> 0, y |-> 0]
    /\ scaleOut = NoOutcome
    /\ scaleBack = NoOutcome
    /\ invocations = 0

\* the requests the agent makes, by the branch of __call__ that takes them
PointerRequests(w, h) ==
    {<<action, text, coordinate>> :
        action \in {"mouse_move", "left_click_drag"},
        text \in {PyNone, PyStr("x")},
        coordinate \in CoordinateInputs(w, h)}

KeyRequests ==
    {<<"key", text, coordinate>> :
        text \in {PyNone, PyInt(5)} \cup {PyStr(t) : t \in KeyTexts},
        coordinate \in {PyNone, PyList(<<PyInt(1), PyInt(2)>>)}}

TypeRequests ==
    {<<"type", text, coordinate>> :
        text \in {PyNone, PyInt(5)} \cup {PyStr(t) : t \in TypeTexts},
        coordinate \in {PyNone, PyList(<<PyInt(1), PyInt(2)>>)}}

ClickRequests ==
    {<<action, spare[1], spare[2]>> :
        action \in {"left_click", "right_click", "double_click", "middle_click",
                    "screenshot", "cursor_position"},
        spare \in Spare}

GameRequests == {<<action, spare[1], spare[2]>> : action \in GameControlActions, spare \in Spare}

OtherRequests == {<<action, spare[1], spare[2]>> : action \in OtherNames, spare \in Spare}

Requests(w, h) ==
    PointerRequests(w, h) \cup KeyRequests \cup TypeRequests \cup ClickRequests
        \cup GameRequests \cup OtherRequests

\* call, evaluated once per configuration and request
Outcomes ==
    [r \in SessionResolutions |->
        [q \in Requests(r.width, r.height) |-> call(r.width, r.height, q[1], q[2], q[3])]]

\* one invocation of the tool: __call__ runs to its return or raise, and the
\* primitives it called have acted on the keyboard and the mouse
Invoke(q) ==
    \E o \in Outcomes[Resolution(width, height)][q] :
        /\ invocations' = invocations + 1
        /\ request' = [action |-> q[1], text |-> q[2], coordinate |-> q[3]]
        /\ calls' = o.calls
        /\ result' = o.result
        /\ keysDown' = KeysAfterAll(keysDown, o.calls)
        /\ buttonsDown' = ButtonsAfterAll(buttonsDown, o.calls)
        /\ UNCHANGED <<width, height, scaleIn, scaleOut, scaleBack>>

PointerMotion ==
    /\ invocations < MaxCalls
    /\ \E q \in PointerRequests(width, height) : Invoke(q)

KeyInput ==
    /\ invocations < MaxCalls
    /\ \E q \in KeyRequests : Invoke(q)

TypeInput ==
    /\ invocations < MaxCalls
    /\ \E q \in TypeRequests : Invoke(q)

ClickOrCapture ==
    /\ invocations < MaxCalls
    /\ \E q \in ClickRequests : Invoke(q)

GameControl ==
    /\ invocations < MaxCalls
    /\ \E q \in GameRequests : Invoke(q)

OtherAction ==
    /\ invocations < MaxCalls
    /\ \E q \in OtherRequests : Invoke(q)

Next ==
    \/ PointerMotion
    \/ KeyInput
    \/ TypeInput
    \/ ClickOrCapture
    \/ GameControl
    \/ OtherAction

Spec == Init /\ [][Next]_vars

----------------------------------------------------------------------------
(* Properties of the dispatcher, checked under Spec.                       *)

Invoked == invocations > 0

ValidationMessages ==
    {"coordinate is required", "text is not accepted", "must be a tuple of length 2",
     "must be a tuple of non-negative ints", "text is required",
     "coordinate is not accepted", "must be a string"}

FailedValidation ==
    result.kind = "ToolError" /\ result.message \in ValidationMessages

\* C1 as stated: a game-control action invoked with a non-null text or a
\* non-null coordinate fails with a validation ToolError and performs no
\* mouse or key primitive.
C1_GameControlForbidsParameters ==
    (/\ Invoked
     /\ request.action \in GameControlActions
     /\ (request.text.t # "None" \/ request.coordinate.t # "None"))
        => (FailedValidation /\ calls = <<>>)

\* C2 as stated: an action name outside the 20-name vocabulary fails with
\* an invalid-action ToolError and calls no input primitive.
C2_UnknownNamesRejected ==
    (Invoked /\ request.action \notin Vocabulary)
        => (/\ result.kind = "ToolError"
            /\ result.message = "Invalid action"
            /\ calls = <<>>)

ArrowKeys == {"up", "down", "left", "right"}

\* C3 as stated: an arrow key that is down stays down across every
\* invocation other than release_arrow_<d>, and the primary button that is
\* down stays down across every invocation other than left_up.
C3_HeldUntilExplicitRelease ==
    [][ /\ \A d \in ArrowKeys :
              (d \in keysDown /\ request'.action # "release_arrow_" \o d)
                  => d \in keysDown'
        /\ ("left" \in buttonsDown /\ request'.action # "left_up")
              => "left" \in buttonsDown' ]_vars

\* the invocation req, which ended in res, names arrow key d for release or
\* taps it: release_arrow_..._<d>, or a successful key whose text is <d> or
\* <d>-arrow, in any case of the letters
LetsGoOfKey(req, res, d) ==
    \/ /\ Len(req.action) > Len("release_arrow_")
       /\ SubSeq(req.action, 1, Len("release_arrow_")) = "release_arrow_"
       /\ lower(SubSeq(req.action, Len(req.action) - Len(d), Len(req.action)))
             = "_" \o d
    \/ /\ req.action = "key"
       /\ res.kind = "ToolResult"
       /\ lower(req.text.v) \in {d, d \o "-arrow"}

\* the invocation req, which ended in res, releases or clicks the primary button
LetsGoOfButton(req, res) ==
    \/ req.action = "left_up"
    \/ /\ req.action \in {"left_click", "double_click", "left_click_drag"}
       /\ res.kind = "ToolResult"

\* C3 as amended: an arrow key that is down stays down across every
\* invocation, failed or successful, except a release_arrow_ action naming
\* it and a successful key action whose text names it (a press is a key-down
\* followed by a key-up); the primary button that is down stays down across
\* every invocation except left_up and a successful left_click, double_click
\* or left_click_drag.
C3_HeldUntilReleasedOrTapped ==
    [][ /\ \A d \in ArrowKeys :
              (d \in keysDown /\ ~LetsGoOfKey(request', result', d))
                  => d \in keysDown'
        /\ ("left" \in buttonsDown /\ ~LetsGoOfButton(request', result'))
              => "left" \in buttonsDown' ]_vars

\* up and the primary button were put down and are still down after a
\* later, successful type
C3_Witness ==
    /\ "up" \in keysDown
    /\ "left" \in buttonsDown
    /\ request.action = "type"
    /\ result.kind = "ToolResult"

\* C7 as stated: key holds the lower-cased letter for one second exactly
\* when text is one of the single letters w, a, s, d; presses enter for
\* return; presses the arrow for a directional token; and for every other
\* text presses the lower-cased text once.
C7_KeyPrimitiveFollowsText ==
    (Invoked /\ request.action = "key" /\ result.kind = "ToolResult")
        => LET t == lower(request.text.v) IN
           calls = IF t \in {"w", "a", "s", "d"}
                       THEN <<KeyDown(t), Sleep(1), KeyUp(t)>>
                   ELSE IF t = "return" THEN <<Press("enter")>>
                   ELSE IF t \in {"up", "up-arrow"} THEN <<Press("up")>>
                   ELSE IF t \in {"down", "down-arrow"} THEN <<Press("down")>>
                   ELSE IF t \in {"left", "left-arrow"} THEN <<Press("left")>>
                   ELSE IF t \in {"right", "right-arrow"} THEN <<Press("right")>>
                   ELSE <<Press(t)>>

\* the coordinate of a pointer-motion request is omitted, not of length 2,
\* or has a negative or non-integer component, or text is given
MalformedPointerRequest(req) ==
    \/ req.text.t # "None"
    \/ req.coordinate.t = "None"
    \/ Len(req.coordinate.v) # 2
    \/ \E i \in 1..Len(req.coordinate.v) :
          \/ req.coordinate.v[i].t # "int"
          \/ req.coordinate.v[i].v < 0

IsCapture(c) == c.op = "shell" /\ c.cmd = "screencapture"
IsResize(c) == c.op = "shell" /\ c.cmd = "convert"
IsFileRead(c) == c.op \in {"exists", "read_bytes"}
Resizes == {i \in 1..Len(calls) : IsResize(calls[i])}

\* C9 as stated: in the screenshot flow the capture comes before the resize
\* to the configured size, that before the second resize to the target size,
\* that before the existence check and the read; and the second resize is
\* issued only when scaling produced a target.
C9_ScreenshotStepsInOrder ==
    (Invoked /\ request.action = "screenshot" /\ calls # <<>>)
        => /\ \E i \in 1..Len(calls) : IsCapture(calls[i])
           /\ \A i, j \in 1..Len(calls) :
                 (IsCapture(calls[i]) /\ IsResize(calls[j])) => i < j
           /\ \A i, j \in 1..Len(calls) :
                 (IsResize(calls[i]) /\ IsFileRead(calls[j])) => i < j
           /\ Resizes # {}
           /\ calls[Min(Resizes)].w = width /\ calls[Min(Resizes)].h = height
           /\ Cardinality(Resizes) =
                 IF target_dimension(width, height).name # "None" THEN 2 ELSE 1

\* C10 as stated: the coordinates handed to moveTo or dragTo lie inside the
\* physical display, 0 <= x <= width and 0 <= y <= height.
C10_PointerInsideDisplay ==
    \A i \in 1..Len(calls) :
        calls[i].op \in {"moveTo", "dragTo"}
            => /\ 0 <= calls[i].x /\ calls[i].x <= width
               /\ 0 <= calls[i].y /\ calls[i].y <= height

====
